---- MODULE Spec2Model ----
(***************************************************************************)
(* A model of the evaluation tool: the file-backed results store and       *)
(* progress cache (data_manager.py), the automated scoring paths           *)
(* (app.py auto_score_remaining, run_llm_judge.py), the ChatGPT batch      *)
(* runner (app.py, chatgpt_client.py), the stratified sampler              *)
(* (sampling.py) and the analysis (analyzer.py).                           *)
(*                                                                         *)
(* JSON null and an absent key are both written "None": every read in the  *)
(* source goes through dict.get and a truthiness test, which do not tell   *)
(* them apart.  A dict is a function over the query ids whose entries      *)
(* carry a "present" flag.  Dicts are iterated in ascending id order.      *)
(***************************************************************************)
EXTENDS Integers, Sequences, FiniteSets

VARIABLES
    results,          \* results.json: query id -> entry
    progress,         \* progress.json: query id -> progress entry
    fs_log,           \* history: the file operations of the latest operation that made any
    scores_reply,     \* history: the latest response of /api/save-scores
    jpc,              \* run_llm_judge.py: position of the script
    results_data,     \* run_llm_judge.py: the snapshot loaded at start
    queries_to_score, \* run_llm_judge.py: ids found needing LLM scoring
    ji,               \* run_llm_judge.py: loop index into queries_to_score
    successful,       \* run_llm_judge.py: number of queries scored so far
    dataset,          \* query_dataset.json: query id -> whether its text is non-empty
    batch_processing, \* app.py: the global batch status record
    wpc,              \* batch worker thread -> its position
    wqueries,         \* batch worker thread -> the queries it was started with
    widx,             \* batch_query: idx of the loop
    wattempt,         \* query_with_retry: attempt of the loop
    wresult,          \* batch_query: result of the current query
    wresults,         \* batch_query: the results list
    wcalls,           \* history: invocations of query_chatgpt, per position of the batch
    wcallbacks,       \* history: the calls of the progress callback, in order
    wsleeps,          \* history: the time.sleep calls of the worker, in order
    spc,              \* select_stratified_sample: position in the function
    squeries,         \* select_stratified_sample: the argument queries
    sample_size,      \* select_stratified_sample: the argument sample_size
    selected,         \* select_stratified_sample: the ids of selected, in order
    selected_ids,     \* select_stratified_sample: the set selected_ids
    cat_i,            \* select_stratified_sample: position in categories
    remaining,        \* select_stratified_sample: the free slots
    tpc,              \* paired_t_test: position in the function
    df,               \* paired_t_test: the two columns of the metric, row by row
    t_test,           \* paired_t_test: the dictionary returned
    gpc,              \* the quality insight: position in the analysis
    quality_df,       \* performance_by_quality: the rows of the "Poorly-formed" group
    by_quality,       \* performance_by_quality: the statistics of the group
    insights,         \* generate_insights: the winner named by the quality insight
    saving            \* thread -> the call of save_result or save_scores it is in

storeVars == <<results, progress, fs_log, scores_reply>>
judgeVars == <<jpc, results_data, queries_to_score, ji, successful>>
batchVars == <<dataset, batch_processing, wpc, wqueries, widx, wattempt, wresult,
               wresults, wcalls, wcallbacks, wsleeps>>
sampleVars == <<spc, squeries, sample_size, selected, selected_ids, cat_i, remaining>>
insightVars == <<gpc, quality_df, by_quality, insights>>
analyzerVars == <<tpc, df, t_test, insightVars>>
vars == <<storeVars, judgeVars, batchVars, sampleVars, analyzerVars, saving>>

\* What each part of the program leaves alone.
StoreFrame == <<judgeVars, batchVars, sampleVars, analyzerVars, saving>>
JudgeFrame == <<batchVars, sampleVars, analyzerVars, saving>>
BatchFrame == <<judgeVars, sampleVars, analyzerVars, saving>>
SampleFrame == <<storeVars, judgeVars, batchVars, analyzerVars, saving>>
AnalyzerFrame == <<storeVars, judgeVars, batchVars, sampleVars, saving>>
SavingFrame == <<scores_reply, judgeVars, batchVars, sampleVars, analyzerVars>>

----------------------------------------------------------------------------
(* Bounds *)

NumQueries == 2

\* The number of start requests the web application accepts in a run.
MaxBatches == 2

\* The longest list of queries handed to the sampler; sample sizes go one
\* beyond it.
MaxSample == 3

\* The most rows of the table handed to paired_t_test.
MaxRows == 3

\* The scores of a metric are 1 .. MaxScore.
MaxScore == 2

----------------------------------------------------------------------------
(* The data *)

None == "None"

QueryIds == 0 .. (NumQueries - 1)

Platforms == {"chatgpt", "google"}

\* A response record as saved by save_result (it always carries a timestamp,
\* so it is never an empty dict).
ResponseData == "resp"

\* Another response record, as a later save of the same query may carry.
OtherResponseData == "resp2"

ResponseValues == {ResponseData, OtherResponseData}

\* The ScoreSet a person submits through /api/save-scores.
ManualScores == "manual"

\* The ScoreSet auto_score_remaining builds (its 'auto_scored' key is True).
AutoScores == "auto"

\* The ScoreSet run_llm_judge stores under 'llm_scores'.
LlmScores == "llm"

\* results[str(query_id)] as save_result first creates it; 'llm_scores' is
\* absent, which reads as None.
NewEntry == [present |-> TRUE, chatgpt |-> None, google |-> None,
             scores |-> None, llm_scores |-> None]

NoEntry == [present |-> FALSE, chatgpt |-> None, google |-> None,
            scores |-> None, llm_scores |-> None]

NewProgress == [present |-> TRUE, chatgpt_done |-> FALSE, google_done |-> FALSE,
                scored |-> FALSE]

NoProgress == [present |-> FALSE, chatgpt_done |-> FALSE, google_done |-> FALSE,
               scored |-> FALSE]

EmptyResults == [q \in QueryIds |-> NoEntry]

EmptyProgress == [q \in QueryIds |-> NoProgress]

\* Python truthiness of a stored value.
Truthy(v) == v # None

\* A file exists once an entry was written to it: nothing writes an empty
\* dict, and reset_progress removes progress.json.
FileExists(content) == \E q \in QueryIds : content[q].present

\* A file operation: existed tells whether the file was there before it.
FsOp(op, file, existed) == [op |-> op, file |-> file, existed |-> existed]

\* backup_file(filepath) behind the os.path.exists test of its callers: a
\* copy of the file as it is.
BackupOps(file, existed) == IF existed THEN <<FsOp("backup", file, TRUE)>> ELSE <<>>

\* with open(filepath, 'w') ...: json.dump(...)
WriteOps(file, existed) == <<FsOp("write", file, existed)>>

\* The log after an operation that made the file operations ops.
Logged(log, ops) == IF ops = <<>> THEN log ELSE ops

\* A ScoreSet of a request that lacks one of the required fields.
PartialScores == "partial"

\* jsonify({'success': ..., 'error' / 'message': ...}), status
Reply(status, success, error, message) ==
    [status |-> status, success |-> success, error |-> error, message |-> message]

NoReply == Reply(0, FALSE, None, None)

----------------------------------------------------------------------------
(* data_manager.py *)

\* update_progress(query_id, status_field): the new content of progress.json.
UpdateProgressOp(prog, q, field) ==
    LET e == IF prog[q].present THEN prog[q] ELSE NewProgress
    IN  [prog EXCEPT ![q] = [e EXCEPT ![field] = TRUE]]

DoneField(platform) == IF platform = "chatgpt" THEN "chatgpt_done" ELSE "google_done"

\* A save that keeps a response already stored.
SaveResultKeepsStored(res, q, platform, data) ==
    IF res[q].present /\ res[q][platform] # None THEN res
    ELSE [res EXCEPT ![q] = [(IF res[q].present THEN res[q] ELSE NewEntry)
                                 EXCEPT ![platform] = data]]

\* A save that is put off: the file stays as it is.
SaveResultPutOff(res, q, platform, data) == res

\* save_result(query_id, platform, response_data): the new content of
\* results.json.
SaveResultOp(res, q, platform, data) ==
    LET e == IF res[q].present THEN res[q] ELSE NewEntry
    IN  [res EXCEPT ![q] = [e EXCEPT ![platform] = data]]

\* update_progress: the file is written with no backup.
UpdateProgressFileOps(prog) == WriteOps("progress", FileExists(prog))

\* save_result: backup of results.json if it exists, write, update_progress.
SaveResultFileOps(res, prog) ==
    BackupOps("results", FileExists(res))
    \o WriteOps("results", FileExists(res))
    \o UpdateProgressFileOps(prog)

\* save_scores(query_id, scores): whether it writes at all.
SaveScoresAccepts(res, q) == res[q].present

\* save_scores(query_id, scores): the new content of results.json.
SaveScoresOp(res, q, sc) ==
    IF SaveScoresAccepts(res, q)
    THEN [res EXCEPT ![q].scores = sc]
    ELSE res

\* save_scores(query_id, scores): the new content of progress.json.
SaveScoresProgress(res, prog, q) ==
    IF SaveScoresAccepts(res, q)
    THEN UpdateProgressOp(prog, q, "scored")
    ELSE prog

\* save_scores: backup of results.json if it exists, write, update_progress.
SaveScoresFileOps(res, prog, q) ==
    IF SaveScoresAccepts(res, q)
    THEN BackupOps("results", FileExists(res))
         \o WriteOps("results", FileExists(res))
         \o UpdateProgressFileOps(prog)
    ELSE <<>>

\* The test of get_queries_needing_scores on one query.
NeedsScores(prog, q) ==
    /\ prog[q].chatgpt_done
    /\ prog[q].google_done
    /\ ~prog[q].scored

RECURSIVE NeedingScoresFrom(_, _)
NeedingScoresFrom(prog, q) ==
    IF q >= NumQueries THEN <<>>
    ELSE (IF NeedsScores(prog, q) THEN <<q>> ELSE <<>>)
         \o NeedingScoresFrom(prog, q + 1)

\* get_queries_needing_scores(): the ids of the queries returned, in dataset
\* order.
GetQueriesNeedingScores(prog) == NeedingScoresFrom(prog, 0)

SeqRange(s) == {s[i] : i \in 1 .. Len(s)}

ZeroStats == [chatgpt_responses |-> 0, google_responses |-> 0, scored |-> 0,
              fully_complete |-> 0]

Bump(b) == IF b THEN 1 ELSE 0

\* The loop body of get_completion_stats for one entry of results.
CountEntry(st, e) ==
    LET has_chatgpt == Truthy(e.chatgpt)
        has_google  == Truthy(e.google)
        has_scores  == Truthy(e.scores) \/ Truthy(e.llm_scores)
    IN  [chatgpt_responses |-> st.chatgpt_responses + Bump(has_chatgpt),
         google_responses  |-> st.google_responses + Bump(has_google),
         scored            |-> st.scored + Bump(has_scores),
         fully_complete    |-> st.fully_complete
                               + Bump(has_chatgpt /\ has_google /\ has_scores)]

RECURSIVE CompletionLoop(_, _, _)
CompletionLoop(res, q, st) ==
    IF q >= NumQueries THEN st
    ELSE CompletionLoop(res, q + 1,
                        IF res[q].present THEN CountEntry(st, res[q]) ELSE st)

\* A reading of the counts off the progress cache instead of results.json.
StatsSourceCache ==
    [q \in QueryIds |->
        [present    |-> progress[q].present,
         chatgpt    |-> IF progress[q].chatgpt_done THEN ResponseData ELSE None,
         google     |-> IF progress[q].google_done THEN ResponseData ELSE None,
         scores     |-> IF progress[q].scored THEN ManualScores ELSE None,
         llm_scores |-> None]]

\* The file get_completion_stats reads.
StatsSource == results

\* get_completion_stats(): the four counts (total_queries is the size of the
\* dataset and percent_complete a function of fully_complete and
\* total_queries).
GetCompletionStats == CompletionLoop(StatsSource, 0, ZeroStats)

----------------------------------------------------------------------------
(* The request handlers and the batch callback that write the store *)

\* save_result as called by save_google_response ('google') and by the batch
\* worker's progress_callback ('chatgpt').
SaveResultWith(q, platform, data) ==
    /\ results' = SaveResultOp(results, q, platform, data)
    /\ progress' = UpdateProgressOp(progress, q, DoneField(platform))
    /\ fs_log' = SaveResultFileOps(results, progress)
    /\ UNCHANGED <<scores_reply, StoreFrame>>

SaveResult(q, platform) == SaveResultWith(q, platform, ResponseData)

\* The query_id of a request: absent, or the id of a query.
RequestIds == {<<>>} \cup {<<q>> : q \in QueryIds}

\* The scores of a request: absent, lacking a field, or complete.
RequestScores == {None, PartialScores, ManualScores}

\* for field in required_fields: if field not in scores
HasRequiredFields(scores) == scores # PartialScores

\* /api/save-scores: the two tests of the handler, then
\* data_manager.save_scores, whose result is the 'success' of the response.
SaveScores(query_id, scores) ==
    IF query_id = <<>> \/ ~Truthy(scores)
    THEN /\ scores_reply' = Reply(400, FALSE, "Missing required fields", None)
         /\ UNCHANGED <<results, progress, fs_log, StoreFrame>>
    ELSE IF ~HasRequiredFields(scores)
    THEN /\ scores_reply' = Reply(400, FALSE, "Missing score field", None)
         /\ UNCHANGED <<results, progress, fs_log, StoreFrame>>
    ELSE LET q == query_id[1]
         IN  /\ results' = SaveScoresOp(results, q, scores)
             /\ progress' = SaveScoresProgress(results, progress, q)
             /\ fs_log' = Logged(fs_log, SaveScoresFileOps(results, progress, q))
             /\ scores_reply' = Reply(200, SaveScoresAccepts(results, q), None,
                                      "Scores saved")
             /\ UNCHANGED StoreFrame

\* The threads that save: the batch worker (progress_callback) and a request
\* handler (/api/save-google-response or /api/save-scores).
Threads == {"worker", "handler"}

NoSave == [pc |-> "idle", field |-> None, q |-> 0, data |-> None,
           results |-> EmptyResults, progress |-> EmptyProgress, ok |-> FALSE]

\* The calls a thread makes: the worker saves a ChatGPT response, the
\* handler a Google response or the scores of a person.
SaveCalls(t) ==
    IF t = "worker"
    THEN [field : {"chatgpt"}, q : QueryIds, data : ResponseValues]
    ELSE [field : {"google"}, q : QueryIds, data : ResponseValues]
         \cup [field : {"scores"}, q : QueryIds, data : {ManualScores}]

\* The thread t enters save_result or save_scores.
SaveCall(t, call) ==
    /\ saving[t].pc = "idle"
    /\ saving' = [saving EXCEPT ![t] = [NoSave EXCEPT !.pc = "load",
                                                      !.field = call.field,
                                                      !.q = call.q,
                                                      !.data = call.data]]
    /\ UNCHANGED <<results, progress, fs_log, SavingFrame>>

\* results = load_results(); save_scores returns False for a query that is
\* not in what it loaded.
SaveLoad(t) ==
    /\ saving[t].pc = "load"
    /\ saving' = [saving EXCEPT ![t] =
                      IF saving[t].field = "scores" /\ ~SaveScoresAccepts(results, saving[t].q)
                      THEN [@ EXCEPT !.pc = "returned", !.ok = FALSE]
                      ELSE [@ EXCEPT !.pc = "write", !.results = results]]
    /\ UNCHANGED <<results, progress, fs_log, SavingFrame>>

\* The entry is set in what was loaded, results.json is backed up if it
\* exists and written from it.
SaveWrite(t) ==
    /\ saving[t].pc = "write"
    /\ results' = IF saving[t].field = "scores"
                  THEN SaveScoresOp(saving[t].results, saving[t].q, saving[t].data)
                  ELSE SaveResultOp(saving[t].results, saving[t].q, saving[t].field,
                                    saving[t].data)
    /\ fs_log' = BackupOps("results", FileExists(results))
                     \o WriteOps("results", FileExists(results))
    /\ saving' = [saving EXCEPT ![t].pc = "load_progress"]
    /\ UNCHANGED <<progress, SavingFrame>>

\* update_progress: progress = load_progress()
SaveLoadProgress(t) ==
    /\ saving[t].pc = "load_progress"
    /\ saving' = [saving EXCEPT ![t].pc = "write_progress", ![t].progress = progress]
    /\ UNCHANGED <<results, progress, fs_log, SavingFrame>>

\* update_progress: the field is set in what was loaded and progress.json
\* is written; the save returns True.
SaveWriteProgress(t) ==
    /\ saving[t].pc = "write_progress"
    /\ progress' = UpdateProgressOp(saving[t].progress, saving[t].q,
                                    IF saving[t].field = "scores" THEN "scored"
                                    ELSE DoneField(saving[t].field))
    /\ fs_log' = UpdateProgressFileOps(progress)
    /\ saving' = [saving EXCEPT ![t].pc = "returned", ![t].ok = TRUE]
    /\ UNCHANGED <<results, SavingFrame>>

\* reset_progress(): progress.json is backed up and removed, if it exists.
ResetProgress ==
    /\ progress' = EmptyProgress
    /\ fs_log' = Logged(fs_log, BackupOps("progress", FileExists(progress))
                                \o (IF FileExists(progress)
                                    THEN <<FsOp("remove", "progress", TRUE)>>
                                    ELSE <<>>))
    /\ UNCHANGED <<results, scores_reply, StoreFrame>>

\* Whether auto_score_remaining gets as far as the judge for one query: both
\* response texts must be there.
HasBothResponses(res, q) ==
    /\ res[q].present
    /\ Truthy(res[q].chatgpt)
    /\ Truthy(res[q].google)

\* auto_score_remaining: the loop over queries_to_score; judged is the set of
\* queries for which the judge returns both evaluations.  Returns the
\* triple <<results, progress, file operations>>.
RECURSIVE AutoScoreLoop(_, _, _, _, _)
AutoScoreLoop(res, prog, ops, todo, judged) ==
    IF todo = <<>> THEN <<res, prog, ops>>
    ELSE LET q == Head(todo)
         IN  IF HasBothResponses(res, q) /\ q \in judged
             THEN AutoScoreLoop(SaveScoresOp(res, q, AutoScores),
                                SaveScoresProgress(res, prog, q),
                                ops \o SaveScoresFileOps(res, prog, q),
                                Tail(todo), judged)
             ELSE AutoScoreLoop(res, prog, ops, Tail(todo), judged)

\* /api/auto-score-remaining.
AutoScoreRemaining ==
    LET todo == GetQueriesNeedingScores(progress)
    IN  \E judged \in SUBSET SeqRange(todo) :
            LET out == AutoScoreLoop(results, progress, <<>>, todo, judged)
            IN  /\ results' = out[1]
                /\ progress' = out[2]
                /\ fs_log' = Logged(fs_log, out[3])
                /\ UNCHANGED <<scores_reply, StoreFrame>>

----------------------------------------------------------------------------
(* run_llm_judge.py, a script run beside the web application *)

\* The test of the selection loop on one entry of the snapshot.
NeedsLlmScoring(e) ==
    /\ e.present
    /\ Truthy(e.chatgpt)
    /\ Truthy(e.google)
    /\ ~Truthy(e.scores)
    /\ ~Truthy(e.llm_scores)

RECURSIVE ToScoreFrom(_, _)
ToScoreFrom(data, q) ==
    IF q >= NumQueries THEN <<>>
    ELSE (IF NeedsLlmScoring(data[q]) THEN <<q>> ELSE <<>>)
         \o ToScoreFrom(data, q + 1)

\* The script loads results.json and selects the queries to score; with none
\* to score it returns at once.
JudgeStart ==
    /\ jpc = "idle"
    /\ LET todo == ToScoreFrom(results, 0)
       IN  /\ results_data' = results
           /\ queries_to_score' = todo
           /\ jpc' = IF todo = <<>> THEN "idle" ELSE "scoring"
    /\ ji' = 1
    /\ successful' = 0
    /\ UNCHANGED <<storeVars, JudgeFrame>>

\* Every SaveEvery-th successful scoring writes the snapshot.
SaveEvery == 5

\* The assignment results_data[query_id_str]['llm_scores'] = {...}.
StoreLlmScores(data, q) == [data EXCEPT ![q].llm_scores = LlmScores]

\* Whether an iteration of the scoring loop stores scores: the judge returned
\* both evaluations (ok) and the query is in the snapshot.
JudgeStores(data, q, ok) == ok /\ data[q].present

\* One iteration of the scoring loop: the judge returns both evaluations (ok)
\* or fails.
JudgeScore ==
    /\ jpc = "scoring"
    /\ ji <= Len(queries_to_score)
    /\ \E ok \in BOOLEAN :
         LET q == queries_to_score[ji]
         IN  IF JudgeStores(results_data, q, ok)
             THEN /\ results_data' = StoreLlmScores(results_data, q)
                  /\ successful' = successful + 1
                  /\ results' = IF (successful + 1) % SaveEvery = 0
                                THEN StoreLlmScores(results_data, q)
                                ELSE results
                  /\ fs_log' = IF (successful + 1) % SaveEvery = 0
                               THEN WriteOps("results", FileExists(results))
                               ELSE fs_log
             ELSE UNCHANGED <<results_data, successful, results, fs_log>>
    /\ ji' = ji + 1
    /\ UNCHANGED <<progress, scores_reply, jpc, queries_to_score, JudgeFrame>>

\* What the final write puts into results.json.
FinalWrite(data) == data

\* After the loop: the final write of the snapshot; the script ends.
JudgeFinish ==
    /\ jpc = "scoring"
    /\ ji > Len(queries_to_score)
    /\ results' = FinalWrite(results_data)
    /\ fs_log' = WriteOps("results", FileExists(results))
    /\ jpc' = "idle"
    /\ results_data' = EmptyResults
    /\ queries_to_score' = <<>>
    /\ ji' = 1
    /\ successful' = 0
    /\ UNCHANGED <<progress, scores_reply, JudgeFrame>>

\* The scoring loop run from its start to its end on a snapshot.
RECURSIVE JudgeLoop(_, _, _)
JudgeLoop(data, todo, judged) ==
    IF todo = <<>> THEN data
    ELSE JudgeLoop(IF JudgeStores(data, Head(todo), Head(todo) \in judged)
                   THEN StoreLlmScores(data, Head(todo)) ELSE data,
                   Tail(todo), judged)

\* The whole script run while nothing else writes the store.
JudgeRun ==
    LET todo == ToScoreFrom(results, 0)
    IN  /\ todo # <<>>
        /\ \E judged \in SUBSET SeqRange(todo) :
               results' = FinalWrite(JudgeLoop(results, todo, judged))
        /\ fs_log' = WriteOps("results", FileExists(results))
        /\ UNCHANGED <<progress, scores_reply, StoreFrame>>

----------------------------------------------------------------------------
(* data_manager.py: the work queues read off the progress cache *)

\* The loop of get_queries_needing_chatgpt / get_queries_needing_google from
\* query q on: append, then test the cap.
RECURSIVE NeedingLoop(_, _, _, _, _)
NeedingLoop(prog, field, batch_size, q, needed) ==
    IF q >= NumQueries THEN needed
    ELSE LET n2 == IF ~prog[q][field] THEN Append(needed, q) ELSE needed
         IN  IF Len(n2) >= batch_size THEN n2
             ELSE NeedingLoop(prog, field, batch_size, q + 1, n2)

GetQueriesNeedingChatgpt(prog, batch_size) ==
    NeedingLoop(prog, "chatgpt_done", batch_size, 0, <<>>)

GetQueriesNeedingGoogle(prog, batch_size) ==
    NeedingLoop(prog, "google_done", batch_size, 0, <<>>)

----------------------------------------------------------------------------
(* chatgpt_client.py and the batch worker of app.py *)

Workers == 1 .. MaxBatches

\* config: retry_attempts, retry_delay and rate_limit_delay (seconds).
MaxAttempts == 3

RetryDelay == 2

RateLimitDelay == 1

IdleStatus ==
    [running |-> FALSE, progress |-> 0, total |-> 0, current_query |-> <<>>,
     errors |-> 0, success_count |-> 0, completed |-> FALSE,
     completion_message |-> None]

\* The outcomes of the API call inside query_chatgpt: it returns or raises.
ApiOutcomes == {"ok", "error"}

\* query_chatgpt(query_text): every exception of the API call is caught and
\* turned into None; the function itself never raises.
QueryChatgpt(api) ==
    [raised |-> FALSE, value |-> IF api = "ok" THEN ResponseData ELSE None]

\* The delay of the backoff sleep after the failed attempt number attempt
\* (counted from 0).
BackoffDelay(attempt) == RetryDelay * (2 ^ attempt)

\* A loop over the attempts that stops one short.
AttemptsLeftOneShort(attempt) == attempt < MaxAttempts - 1

\* range(max_attempts): whether the loop of query_with_retry runs again.
AttemptsLeft(attempt) == attempt < MaxAttempts

\* batch_query: the query is skipped when it has no text.
Skipped(q) == ~dataset[q]

\* A rate-limit sleep after every item.
RateLimitedAlways(idx, total) == idx < total

\* batch_query: the rate-limit sleep is taken unless idx is the last index.
RateLimited(idx, total) == idx < total - 1

Set1(f, w, v) == [f EXCEPT ![w] = v]

workerLocals == <<wpc, wqueries, widx, wattempt, wresult, wresults, wcalls, wcallbacks,
                  wsleeps>>

\* /api/run-chatgpt-batch: rejected while batch_processing['running'];
\* otherwise the status is cleared, the queue is read and, when it is not
\* empty, the worker thread w is started.
RunChatgptBatch(w, batch_size) ==
    /\ wpc[w] = "unused"
    /\ \A v \in Workers : v < w => wpc[v] # "unused"
    /\ IF batch_processing.running
       THEN UNCHANGED <<batch_processing, workerLocals>>
       ELSE LET todo == GetQueriesNeedingChatgpt(progress, batch_size)
            IN  /\ batch_processing' =
                       [batch_processing EXCEPT !.completed = FALSE,
                                                !.completion_message = None,
                                                !.errors = 0,
                                                !.success_count = 0]
                /\ IF todo = <<>>
                   THEN UNCHANGED workerLocals
                   ELSE /\ wpc' = Set1(wpc, w, "start")
                        /\ wqueries' = Set1(wqueries, w, todo)
                        /\ wcalls' = Set1(wcalls, w, [i \in 1 .. Len(todo) |-> 0])
                        /\ UNCHANGED <<widx, wattempt, wresult, wresults, wcallbacks,
                                       wsleeps>>
    /\ UNCHANGED <<dataset, storeVars, BatchFrame>>

\* process_chatgpt_batch: the assignments before the try block.
WorkerStart(w) ==
    /\ wpc[w] = "start"
    /\ batch_processing' =
           [batch_processing EXCEPT !.running = TRUE,
                                    !.progress = 0,
                                    !.total = Len(wqueries[w]),
                                    !.errors = 0,
                                    !.success_count = 0,
                                    !.completed = FALSE,
                                    !.completion_message = None]
    /\ wpc' = Set1(wpc, w, "init")
    /\ UNCHANGED <<dataset, wqueries, widx, wattempt, wresult, wresults, wcalls,
                   wcallbacks, wsleeps, storeVars, BatchFrame>>

\* process_chatgpt_batch: ChatGPTClient() returns, or raises for a missing
\* API key and the except block records the error.
WorkerInit(w) ==
    /\ wpc[w] = "init"
    /\ \E key_found \in BOOLEAN :
         IF key_found
         THEN /\ wpc' = Set1(wpc, w, "loop")
              /\ widx' = Set1(widx, w, 0)
              /\ UNCHANGED batch_processing
         ELSE /\ wpc' = Set1(wpc, w, "finally")
              /\ batch_processing' =
                     [batch_processing EXCEPT !.errors = @ + 1,
                                              !.completion_message = "FAILED_BATCH"]
              /\ UNCHANGED widx
    /\ UNCHANGED <<dataset, wqueries, wattempt, wresult, wresults, wcalls, wcallbacks,
                   wsleeps, storeVars, BatchFrame>>

\* batch_query: the head of the loop over the queries.
BatchLoop(w) ==
    /\ wpc[w] = "loop"
    /\ IF widx[w] >= Len(wqueries[w])
       THEN /\ wpc' = Set1(wpc, w, "summary")
            /\ UNCHANGED <<widx, wattempt>>
       ELSE IF Skipped(wqueries[w][widx[w] + 1])
            THEN /\ widx' = Set1(widx, w, widx[w] + 1)
                 /\ UNCHANGED <<wpc, wattempt>>
            ELSE /\ wpc' = Set1(wpc, w, "retry")
                 /\ wattempt' = Set1(wattempt, w, 0)
                 /\ UNCHANGED widx
    /\ UNCHANGED <<dataset, batch_processing, wqueries, wresult, wresults, wcalls,
                   wcallbacks, wsleeps, storeVars, BatchFrame>>

\* The arguments of a callback numbered from 0.
CallbackArgsFromZero(idx, total, q, result) ==
    [current |-> idx, total |-> total, query_id |-> q, ok |-> Truthy(result)]

\* callback(idx + 1, total, query_id, result); of the result the model keeps
\* whether it is one or None.
CallbackArgs(idx, total, q, result) ==
    [current |-> idx + 1, total |-> total, query_id |-> q, ok |-> Truthy(result)]

Sleep(log, kind, at, delay) == Append(log, [kind |-> kind, at |-> at, delay |-> delay])

\* query_with_retry: one pass of the loop over the attempts, or its end.
QueryAttempt(w) ==
    /\ wpc[w] = "retry"
    /\ IF ~AttemptsLeft(wattempt[w])
       THEN /\ wresult' = Set1(wresult, w, None)
            /\ wpc' = Set1(wpc, w, "record")
            /\ UNCHANGED <<wattempt, wcalls, wsleeps>>
       ELSE \E api \in ApiOutcomes :
              LET r == QueryChatgpt(api)
                  pos == widx[w] + 1
              IN  /\ wcalls' = Set1(wcalls, w, [wcalls[w] EXCEPT ![pos] = @ + 1])
                  /\ IF r.raised
                     THEN /\ wsleeps' =
                                 IF wattempt[w] < MaxAttempts - 1
                                 THEN Set1(wsleeps, w,
                                           Sleep(wsleeps[w], "backoff", pos,
                                                 BackoffDelay(wattempt[w])))
                                 ELSE wsleeps
                          /\ wattempt' = Set1(wattempt, w, wattempt[w] + 1)
                          /\ UNCHANGED <<wresult, wpc>>
                     ELSE IF r.value # None
                          THEN /\ wresult' = Set1(wresult, w, r.value)
                               /\ wpc' = Set1(wpc, w, "record")
                               /\ UNCHANGED <<wattempt, wsleeps>>
                          ELSE /\ wattempt' = Set1(wattempt, w, wattempt[w] + 1)
                               /\ UNCHANGED <<wresult, wpc, wsleeps>>
    /\ UNCHANGED <<dataset, batch_processing, wqueries, widx, wresults, wcallbacks,
                   storeVars, BatchFrame>>

\* batch_query after query_with_retry: the result is appended, the callback
\* (progress_callback of app.py) is called, the rate-limit sleep is taken.
RecordResult(w) ==
    /\ wpc[w] = "record"
    /\ LET q == wqueries[w][widx[w] + 1]
           ok == Truthy(wresult[w])
       IN  /\ wresults' = Set1(wresults, w,
                               Append(wresults[w], [query_id |-> q, success |-> ok]))
           /\ batch_processing' =
                  [batch_processing EXCEPT !.progress = widx[w] + 1,
                                           !.current_query = <<q>>,
                                           !.success_count = @ + Bump(ok)]
           /\ results' = IF ok THEN SaveResultOp(results, q, "chatgpt", wresult[w])
                         ELSE results
           /\ progress' = IF ok THEN UpdateProgressOp(progress, q, "chatgpt_done")
                          ELSE progress
           /\ fs_log' = IF ok THEN SaveResultFileOps(results, progress) ELSE fs_log
           /\ wcallbacks' = Set1(wcallbacks, w,
                                 Append(wcallbacks[w],
                                        CallbackArgs(widx[w], Len(wqueries[w]), q,
                                                     wresult[w])))
           /\ wsleeps' = IF RateLimited(widx[w], Len(wqueries[w]))
                         THEN Set1(wsleeps, w,
                                   Sleep(wsleeps[w], "rate", widx[w] + 1, RateLimitDelay))
                         ELSE wsleeps
    /\ widx' = Set1(widx, w, widx[w] + 1)
    /\ wpc' = Set1(wpc, w, "loop")
    /\ UNCHANGED <<scores_reply, dataset, wqueries, wattempt, wresult, wcalls,
                   BatchFrame>>

CountSuccess(rs) == Len(SelectSeq(rs, LAMBDA r : r.success))

\* process_chatgpt_batch after batch_query returned: the counts and the
\* completion message.
BatchSummary(w) ==
    /\ wpc[w] = "summary"
    /\ LET n_ok == CountSuccess(wresults[w])
           n_failed == Len(wresults[w]) - n_ok
       IN  batch_processing' =
               [batch_processing EXCEPT
                   !.success_count = n_ok,
                   !.errors = n_failed,
                   !.completion_message =
                       IF n_failed = 0 THEN "SUCCESS"
                       ELSE IF n_ok = 0 THEN "FAILED" ELSE "PARTIAL"]
    /\ wpc' = Set1(wpc, w, "finally")
    /\ UNCHANGED <<dataset, wqueries, widx, wattempt, wresult, wresults, wcalls,
                   wcallbacks, wsleeps, storeVars, BatchFrame>>

\* A finally block that leaves the running flag as it is.
FinallyBlockLeavesRunning(status) ==
    [status EXCEPT !.current_query = <<>>, !.completed = TRUE]

\* The assignments of the finally block.
FinallyBlock(status) ==
    [status EXCEPT !.running = FALSE, !.current_query = <<>>, !.completed = TRUE]

\* process_chatgpt_batch: the finally block.
WorkerFinally(w) ==
    /\ wpc[w] = "finally"
    /\ batch_processing' = FinallyBlock(batch_processing)
    /\ wpc' = Set1(wpc, w, "done")
    /\ UNCHANGED <<dataset, wqueries, widx, wattempt, wresult, wresults, wcalls,
                   wcallbacks, wsleeps, storeVars, BatchFrame>>

\* /api/acknowledge-batch
AcknowledgeBatch ==
    /\ batch_processing' = [batch_processing EXCEPT !.completed = FALSE,
                                                    !.completion_message = None]
    /\ UNCHANGED <<dataset, workerLocals, storeVars, BatchFrame>>

----------------------------------------------------------------------------
(* sampling.py *)

SampleCategories == {"Informational", "Navigational"}

SampleQualities == {"Well-formed", "Poorly-formed"}

SampleIntents == {"High", "Low"}

\* The lists of n queries with the ids 0 .. n-1.
QueryLists(n) ==
    {qs \in [1 .. n -> [id : 0 .. (n - 1), category : SampleCategories,
                        quality : SampleQualities, intent_clarity : SampleIntents]] :
        \A i \in 1 .. n : qs[i].id = i - 1}

Min(a, b) == IF a <= b THEN a ELSE b

Max(a, b) == IF a >= b THEN a ELSE b

\* The keys of a dict filled in one pass over the queries, in insertion order.
RECURSIVE KeysInOrder(_, _, _)
KeysInOrder(qs, field, seen) ==
    IF qs = <<>> THEN seen
    ELSE KeysInOrder(Tail(qs), field,
                     IF Head(qs)[field] \in SeqRange(seen) THEN seen
                     ELSE Append(seen, Head(qs)[field]))

\* categories = list(by_category.keys())
CategoryList(qs) == KeysInOrder(qs, "category", <<>>)

QualityList(qs) == KeysInOrder(qs, "quality", <<>>)

IntentList(qs) == KeysInOrder(qs, "intent_clarity", <<>>)

\* by_category[c], by_quality.get(c, []), by_intent.get(c, []): the ids, in
\* the order of the queries.
IdsWhere(qs, field, value) ==
    LET hit == SelectSeq(qs, LAMBDA q : q[field] = value)
    IN  [i \in 1 .. Len(hit) |-> hit[i].id]

\* samples_per_category = max(1, sample_size // len(categories))
SamplesPerCategory(size, ncat) == Max(1, size \div ncat)

\* [q for q in ... if q['id'] not in selected_ids]
NotSelected(ids, sel_ids) == SelectSeq(ids, LAMBDA i : i \notin sel_ids)

\* list({q['id']: q for q in priority_groups}.values()): one entry per id, at
\* the place of its first occurrence.
RECURSIVE Dedup(_, _)
Dedup(ids, out) ==
    IF ids = <<>> THEN out
    ELSE Dedup(Tail(ids), IF Head(ids) \in SeqRange(out) THEN out
                          ELSE Append(out, Head(ids)))

\* random.sample(population, n): the lists it may return.
RandomSample(population, n) ==
    {s \in [1 .. n -> SeqRange(population)] :
        \A i, j \in 1 .. n : i # j => s[i] # s[j]}

\* A list left in the order of selection.
Unsorted(ids) == ids

\* selected.sort(key=lambda q: q['id'])
RECURSIVE SortById(_)
SortById(ids) ==
    IF ids = <<>> THEN <<>>
    ELSE LET m == CHOOSE x \in SeqRange(ids) : \A y \in SeqRange(ids) : x <= y
             k == CHOOSE i \in 1 .. Len(ids) : ids[i] = m
         IN  <<m>> \o SortById(SubSeq(ids, 1, k - 1) \o SubSeq(ids, k + 1, Len(ids)))

\* A loop over the categories that stops before the last one.
CategoriesLeftOneShort(i, ncat) == i < ncat

\* for category in categories: whether the loop has a category left.
CategoriesLeft(i, ncat) == i <= ncat

\* The grouping pass and the allocation: the division raises
\* ZeroDivisionError on an empty list of queries.
SampleGroup ==
    /\ spc = "call"
    /\ IF Len(CategoryList(squeries)) = 0
       THEN spc' = "raised"
       ELSE spc' = "category"
    /\ cat_i' = 1
    /\ UNCHANGED <<squeries, sample_size, selected, selected_ids, remaining, SampleFrame>>

\* One pass of the loop over the categories, or the computation of the free
\* slots after its end.
SampleCategory ==
    /\ spc = "category"
    /\ LET categories == CategoryList(squeries)
       IN  IF CategoriesLeft(cat_i, Len(categories))
           THEN LET available == NotSelected(IdsWhere(squeries, "category",
                                                      categories[cat_i]),
                                             selected_ids)
                    n == Min(SamplesPerCategory(sample_size, Len(categories)),
                             Len(available))
                IN  \E sampled \in RandomSample(available, n) :
                        /\ selected' = selected \o sampled
                        /\ selected_ids' = selected_ids \cup SeqRange(sampled)
                        /\ cat_i' = cat_i + 1
                        /\ UNCHANGED <<spc, remaining>>
           ELSE /\ remaining' = sample_size - Len(selected)
                /\ spc' = "priority"
                /\ UNCHANGED <<selected, selected_ids, cat_i>>
    /\ UNCHANGED <<squeries, sample_size, SampleFrame>>

\* The hard strata read off the quality alone.
PriorityGroupsQualityOnly(qs, sel_ids) ==
    Dedup(NotSelected(IdsWhere(qs, "quality", "Poorly-formed")
                      \o IdsWhere(qs, "quality", "Ambiguous"), sel_ids), <<>>)

\* priority_groups before and after the removal of duplicates.
PriorityGroups(qs, sel_ids) ==
    LET poor_quality == IdsWhere(qs, "quality", "Poorly-formed")
                        \o IdsWhere(qs, "quality", "Ambiguous")
        low_intent == IdsWhere(qs, "intent_clarity", "Low")
                      \o IdsWhere(qs, "intent_clarity", "Very Low")
    IN  Dedup(NotSelected(poor_quality, sel_ids) \o NotSelected(low_intent, sel_ids),
              <<>>)

\* The fill from the hard strata.
SamplePriority ==
    /\ spc = "priority"
    /\ LET priority_groups == PriorityGroups(squeries, selected_ids)
       IN  IF remaining > 0 /\ priority_groups # <<>>
           THEN LET n == Min(remaining, Len(priority_groups))
                IN  \E sampled \in RandomSample(priority_groups, n) :
                        /\ selected' = selected \o sampled
                        /\ selected_ids' = selected_ids \cup SeqRange(sampled)
                        /\ remaining' = remaining - n
           ELSE UNCHANGED <<selected, selected_ids, remaining>>
    /\ spc' = "fill"
    /\ UNCHANGED <<squeries, sample_size, cat_i, SampleFrame>>

\* The ids of the queries but the first.
AllIdsButFirst(qs) == [i \in 1 .. (Len(qs) - 1) |-> qs[i + 1].id]

\* [q for q in queries ...]: the ids, in the order of the queries.
AllIds(qs) == [i \in 1 .. Len(qs) |-> qs[i].id]

\* The random fill, the sort and the return.
SampleFill ==
    /\ spc = "fill"
    /\ LET available == NotSelected(AllIds(squeries), selected_ids)
       IN  IF remaining > 0 /\ available # <<>>
           THEN \E sampled \in RandomSample(available, Min(remaining, Len(available))) :
                    selected' = SortById(selected \o sampled)
           ELSE selected' = SortById(selected)
    /\ spc' = "done"
    /\ UNCHANGED <<squeries, sample_size, selected_ids, cat_i, remaining, SampleFrame>>

----------------------------------------------------------------------------
(* analyzer.py *)

\* One row of the table: the query and its 'scores'.
AnalysisRow(q, e) == [query_id |-> q, scores |-> e.scores]

\* result.get(platform, {}).get(...): the key is in every entry save_result
\* creates, so a response not yet saved reads as None, not as the default
\* {}, and the second get raises AttributeError.
ResponseGetRaises(e, platform) == e[platform] = None

\* The loop of load_analysis_data over the dataset from query q on.
RECURSIVE AnalysisLoop(_, _, _)
AnalysisLoop(res, q, data) ==
    IF q >= NumQueries THEN [raised |-> FALSE, rows |-> data]
    ELSE IF ~res[q].present THEN AnalysisLoop(res, q + 1, data)
    ELSE IF ~Truthy(res[q].scores) THEN AnalysisLoop(res, q + 1, data)
    ELSE IF ResponseGetRaises(res[q], "chatgpt") \/ ResponseGetRaises(res[q], "google")
         THEN [raised |-> TRUE, rows |-> data]
         ELSE AnalysisLoop(res, q + 1, Append(data, AnalysisRow(q, res[q])))

\* load_analysis_data(): the rows of the DataFrame, or the exception.
LoadAnalysisData(res) == AnalysisLoop(res, 0, <<>>)

\* generate_full_analysis(): it has no try block, so an exception of
\* load_analysis_data leaves it; an empty table gives the error result.
GenerateFullAnalysis(res) ==
    LET loaded == LoadAnalysisData(res)
    IN  IF loaded.raised THEN "raised"
        ELSE IF Len(loaded.rows) = 0 THEN "error"
        ELSE "analysis"

\* A score that is missing in a row (NaN in the DataFrame).
Missing == 0

ScoreValues == 1 .. MaxScore

\* The tables of n rows for one metric.
Tables(n) == [1 .. n -> [chatgpt : ScoreValues \cup {Missing},
                         google : ScoreValues \cup {Missing}]]

\* df[[chatgpt_col, google_col]].dropna()
DropNa(rows) == SelectSeq(rows, LAMBDA r : r.chatgpt # Missing /\ r.google # Missing)

RECURSIVE SumSeq(_)
SumSeq(xs) == IF xs = <<>> THEN 0 ELSE Head(xs) + SumSeq(Tail(xs))

Abs(x) == IF x < 0 THEN -x ELSE x

Sign(x) == IF x > 0 THEN 1 ELSE IF x < 0 THEN -1 ELSE 0

\* round(x, 2) of the quotient a / b (b > 0), in hundredths; a tie goes to
\* the even hundredth.
RoundHundredths(a, b) ==
    LET num == 100 * Abs(a)
        lo == num \div b
        twice == 2 * (num - lo * b)
        mag == IF twice > b \/ (twice = b /\ lo % 2 = 1) THEN lo + 1 ELSE lo
    IN  Sign(a) * mag

\* A quotient of floats: sign and square num / den of a finite value, inf
\* for x / 0 with x # 0, nan for 0 / 0.
Quotient(sign, sq_num, sq_den) ==
    [kind |-> IF sq_den # 0 THEN "finite" ELSE IF sq_num # 0 THEN "inf" ELSE "nan",
     sign |-> IF sq_den = 0 /\ sq_num = 0 THEN 0 ELSE sign,
     sq_num |-> sq_num, sq_den |-> sq_den]

\* interpret_cohens_d(d): a comparison with nan is False, so nan falls
\* through to the else branch.
InterpretCohensD(d) ==
    IF d.kind = "nan" \/ d.kind = "inf" THEN "large"
    ELSE IF 25 * d.sq_num < d.sq_den THEN "negligible"
    ELSE IF 4 * d.sq_num < d.sq_den THEN "small"
    ELSE IF 25 * d.sq_num < 16 * d.sq_den THEN "medium"
    ELSE "large"

NoTest == [error |-> None, n |-> 0, difference |-> 0,
           t_statistic |-> Quotient(0, 0, 1), cohens_d |-> Quotient(0, 0, 1),
           interpretation |-> None]

\* paired_t_test(df, metric) on the two columns of the metric.  With
\* diff = chatgpt - google, S its sum and V = n * sum(diff^2) - S^2:
\* diff.mean() = S / n, diff.std()^2 = V / (n (n - 1)), so the square of
\* Cohen's d is S^2 (n - 1) / (n V) and the square of t is n times that.
PairedTTestOp(rows) ==
    IF rows = <<>> THEN [NoTest EXCEPT !.error = "Metric not found"]
    ELSE LET paired_df == DropNa(rows)
             n == Len(paired_df)
             diff == [i \in 1 .. n |-> paired_df[i].chatgpt - paired_df[i].google]
             S == SumSeq(diff)
             V == n * SumSeq([i \in 1 .. n |-> diff[i] * diff[i]]) - S * S
             cohens_d == Quotient(Sign(S), S * S * (n - 1), n * V)
         IN  IF n < 2 THEN [NoTest EXCEPT !.error = "Insufficient data for t-test"]
             ELSE [error |-> None,
                   n |-> n,
                   difference |-> RoundHundredths(SumSeq([i \in 1 .. n |->
                                      paired_df[i].google - paired_df[i].chatgpt]), n),
                   t_statistic |-> Quotient(Sign(S), S * S * (n - 1), V),
                   cohens_d |-> cohens_d,
                   interpretation |-> InterpretCohensD(cohens_d)]

\* One call of paired_t_test.
PairedTTest ==
    /\ tpc = "call"
    /\ t_test' = PairedTTestOp(df)
    /\ tpc' = "done"
    /\ UNCHANGED <<df, insightVars, AnalyzerFrame>>

\* The largest number of rows of the "Poorly-formed" group.
MaxGroupRows == 2

Metrics == <<"relevance", "completeness", "source_quality">>

\* The rows of the DataFrame as load_analysis_data builds them: the scores
\* of the three metrics and the intent flag, for both platforms.
GroupRow ==
    [chatgpt : [{"relevance", "completeness", "source_quality"} -> ScoreValues],
     google : [{"relevance", "completeness", "source_quality"} -> ScoreValues],
     chatgpt_intent_understood : BOOLEAN,
     google_intent_understood : BOOLEAN]

IntentFlag(row, platform) ==
    IF platform = "chatgpt" THEN row.chatgpt_intent_understood
    ELSE row.google_intent_understood

\* performance_by_quality, metric loop: platform_stats[metric] =
\* round(values.mean(), 2) for every metric that has a value, in hundredths,
\* in the order of the keys.
RECURSIVE MetricStats(_, _, _)
MetricStats(rows, platform, i) ==
    IF i > Len(Metrics) THEN <<>>
    ELSE LET all == [k \in 1 .. Len(rows) |-> rows[k][platform][Metrics[i]]]
             values == SelectSeq(all, LAMBDA v : v # Missing)
             rest == MetricStats(rows, platform, i + 1)
         IN  IF Len(values) > 0
             THEN <<[key |-> Metrics[i],
                     value |-> RoundHundredths(SumSeq(values), Len(values))]>> \o rest
             ELSE rest

\* round(quality_df[intent_col].sum() / len(quality_df) * 100, 1), in
\* hundredths.
IntentRate(rows, platform) ==
    LET flags == [k \in 1 .. Len(rows) |-> Bump(IntentFlag(rows[k], platform))]
    IN  10 * RoundHundredths(10 * SumSeq(flags), Len(rows))

\* Statistics that leave the intent rate out.
PlatformStatsMetricsOnly(rows, platform) == MetricStats(rows, platform, 1)

\* performance_by_quality: platform_stats of one platform, the metric means
\* and then 'intent_rate'.
PlatformStats(rows, platform) ==
    MetricStats(rows, platform, 1)
        \o <<[key |-> "intent_rate", value |-> IntentRate(rows, platform)]>>

NoGroup == [present |-> FALSE, count |-> 0, chatgpt |-> <<>>, google |-> <<>>]

\* performance_by_quality(df)['Poorly-formed']: the group is in the result
\* when the quality occurs in the DataFrame.
PerformanceByQualityOp(rows) ==
    IF rows = <<>> THEN NoGroup
    ELSE [present |-> TRUE, count |-> Len(rows),
          chatgpt |-> PlatformStats(rows, "chatgpt"),
          google |-> PlatformStats(rows, "google")]

ValuesOf(stats) == [i \in 1 .. Len(stats) |-> stats[i].value]

\* generate_insights, quality performance: np.mean of all numeric values
\* of each platform's dictionary; the insight is made when the two means
\* differ by more than 0.3 (30 hundredths), for google when it is greater.
\* The means s / k are compared cross-multiplied.
GenerateInsightsOp(group) ==
    IF ~group.present THEN None
    ELSE LET c_sum == SumSeq(ValuesOf(group.chatgpt))
             c_k == Len(group.chatgpt)
             g_sum == SumSeq(ValuesOf(group.google))
             g_k == Len(group.google)
             gap == g_sum * c_k - c_sum * g_k
         IN  IF c_k = 0 \/ g_k = 0 THEN None
             ELSE IF Abs(gap) > 30 * c_k * g_k
                  THEN IF gap > 0 THEN "Google AI Mode" ELSE "ChatGPT"
                  ELSE None

\* generate_full_analysis: analysis['by_quality'] = performance_by_quality(df)
PerformanceByQuality ==
    /\ gpc = "by_quality"
    /\ by_quality' = PerformanceByQualityOp(quality_df)
    /\ gpc' = "insights"
    /\ UNCHANGED <<quality_df, insights, tpc, df, t_test, AnalyzerFrame>>

\* generate_insights(analysis), the part on the quality performance.
GenerateInsights ==
    /\ gpc = "insights"
    /\ insights' = GenerateInsightsOp(by_quality)
    /\ gpc' = "done"
    /\ UNCHANGED <<quality_df, by_quality, tpc, df, t_test, AnalyzerFrame>>

----------------------------------------------------------------------------
(* The specifications *)

InitStore ==
    /\ results = EmptyResults
    /\ progress = EmptyProgress
    /\ fs_log = <<>>
    /\ scores_reply = NoReply
    /\ saving = [t \in Threads |-> NoSave]

InitJudge ==
    /\ jpc = "idle"
    /\ results_data = EmptyResults
    /\ queries_to_score = <<>>
    /\ ji = 1
    /\ successful = 0

InitWorkers ==
    /\ batch_processing = IdleStatus
    /\ wpc = [w \in Workers |-> "unused"]
    /\ wqueries = [w \in Workers |-> <<>>]
    /\ widx = [w \in Workers |-> 0]
    /\ wattempt = [w \in Workers |-> 0]
    /\ wresult = [w \in Workers |-> None]
    /\ wresults = [w \in Workers |-> <<>>]
    /\ wcalls = [w \in Workers |-> <<>>]
    /\ wcallbacks = [w \in Workers |-> <<>>]
    /\ wsleeps = [w \in Workers |-> <<>>]

InitInsights ==
    /\ gpc = "idle"
    /\ quality_df = <<>>
    /\ by_quality = NoGroup
    /\ insights = None

InitAnalyzer ==
    /\ tpc = "idle"
    /\ df = <<>>
    /\ t_test = NoTest
    /\ InitInsights

InitSampler ==
    /\ spc = "idle"
    /\ squeries = <<>>
    /\ sample_size = 0
    /\ selected = <<>>
    /\ selected_ids = {}
    /\ cat_i = 1
    /\ remaining = 0

\* The store and the scoring paths, the script running beside the requests.
Init ==
    /\ InitStore
    /\ InitJudge
    /\ InitWorkers
    /\ InitSampler
    /\ InitAnalyzer
    /\ dataset = [q \in QueryIds |-> TRUE]

Next ==
    \/ \E q \in QueryIds, p \in Platforms : SaveResult(q, p)
    \/ \E id \in RequestIds, sc \in RequestScores : SaveScores(id, sc)
    \/ ResetProgress
    \/ AutoScoreRemaining
    \/ JudgeStart
    \/ JudgeScore
    \/ JudgeFinish

Spec == Init /\ [][Next]_vars

\* The store with every operation run to its end before the next starts.
NextStore ==
    \/ \E q \in QueryIds, p \in Platforms : SaveResult(q, p)
    \/ \E id \in RequestIds, sc \in RequestScores : SaveScores(id, sc)
    \/ ResetProgress
    \/ AutoScoreRemaining
    \/ JudgeRun

SpecStore == Init /\ [][NextStore]_vars

\* The batch runner over any dataset, with or without text in each query.
InitBatch ==
    /\ InitStore
    /\ InitJudge
    /\ InitWorkers
    /\ InitSampler
    /\ InitAnalyzer
    /\ dataset \in [QueryIds -> BOOLEAN]

BatchSizes == 1 .. NumQueries

WorkerStep(w) ==
    \/ WorkerStart(w)
    \/ WorkerInit(w)
    \/ BatchLoop(w)
    \/ QueryAttempt(w)
    \/ RecordResult(w)
    \/ BatchSummary(w)
    \/ WorkerFinally(w)

\* One batch: a start request and the worker it starts.
NextClient ==
    \/ \E n \in BatchSizes : RunChatgptBatch(1, n)
    \/ WorkerStep(1)
    \/ AcknowledgeBatch

SpecClient == InitBatch /\ [][NextClient]_vars

\* The same, the worker thread being scheduled as long as it has a step to
\* take.
SpecClientFair == SpecClient /\ WF_vars(WorkerStep(1))

\* The web application: start requests and the workers they start.
NextBatch ==
    \/ \E w \in Workers, n \in BatchSizes : RunChatgptBatch(w, n)
    \/ \E w \in Workers : WorkerStep(w)
    \/ AcknowledgeBatch

SpecBatch == InitBatch /\ [][NextBatch]_vars

\* One call of select_stratified_sample on any list of queries and any
\* sample size.
InitSample ==
    /\ InitStore
    /\ InitJudge
    /\ InitWorkers
    /\ InitAnalyzer
    /\ dataset = [q \in QueryIds |-> TRUE]
    /\ spc = "call"
    /\ squeries \in UNION {QueryLists(n) : n \in 0 .. MaxSample}
    /\ sample_size \in 0 .. (MaxSample + 1)
    /\ selected = <<>>
    /\ selected_ids = {}
    /\ cat_i = 1
    /\ remaining = 0

NextSample ==
    \/ SampleGroup
    \/ SampleCategory
    \/ SamplePriority
    \/ SampleFill

SpecSample == InitSample /\ [][NextSample]_vars

\* The entries a results store can hold: a response at least, automated
\* scores only beside both responses.
StoreEntries ==
    {NoEntry} \cup
    {e \in [present : {TRUE}, chatgpt : ResponseValues \cup {None},
            google : ResponseValues \cup {None},
            scores : {None, ManualScores, AutoScores},
            llm_scores : {None, LlmScores}] :
        /\ e.chatgpt # None \/ e.google # None
        /\ (e.llm_scores # None \/ e.scores = AutoScores)
               => (e.chatgpt # None /\ e.google # None)}

\* The progress file the saves behind a results store leave.
ProgressOf(res) ==
    [q \in QueryIds |->
        IF res[q].present
        THEN [present |-> TRUE, chatgpt_done |-> Truthy(res[q].chatgpt),
              google_done |-> Truthy(res[q].google), scored |-> Truthy(res[q].scores)]
        ELSE NoProgress]

\* save_result on any store, with any response record.
InitSave ==
    /\ results \in [QueryIds -> StoreEntries]
    /\ progress = ProgressOf(results)
    /\ fs_log = <<>>
    /\ scores_reply = NoReply
    /\ saving = [t \in Threads |-> NoSave]
    /\ InitJudge
    /\ InitWorkers
    /\ InitSampler
    /\ InitAnalyzer
    /\ dataset = [q \in QueryIds |-> TRUE]

NextSave ==
    \E q \in QueryIds, p \in Platforms, data \in ResponseValues :
        SaveResultWith(q, p, data)

SpecSave == InitSave /\ [][NextSave]_vars

\* One save of the batch worker and one of a request handler, on any store,
\* their steps interleaved.
NextSaving ==
    \E t \in Threads :
        \/ \E call \in SaveCalls(t) : SaveCall(t, call)
        \/ SaveLoad(t)
        \/ SaveWrite(t)
        \/ SaveLoadProgress(t)
        \/ SaveWriteProgress(t)

SpecSaving == InitSave /\ [][NextSaving]_vars

\* One call of paired_t_test on any table of up to MaxRows rows.
InitTTest ==
    /\ InitStore
    /\ InitJudge
    /\ InitWorkers
    /\ InitSampler
    /\ dataset = [q \in QueryIds |-> TRUE]
    /\ tpc = "call"
    /\ df \in UNION {Tables(n) : n \in 0 .. MaxRows}
    /\ t_test = NoTest
    /\ InitInsights

NextTTest == PairedTTest

SpecTTest == InitTTest /\ [][NextTTest]_vars

\* The quality insight on any "Poorly-formed" group of up to MaxGroupRows
\* rows.
InitQuality ==
    /\ InitStore
    /\ InitJudge
    /\ InitWorkers
    /\ InitSampler
    /\ dataset = [q \in QueryIds |-> TRUE]
    /\ tpc = "idle"
    /\ df = <<>>
    /\ t_test = NoTest
    /\ gpc = "by_quality"
    /\ quality_df \in UNION {[1 .. n -> GroupRow] : n \in 0 .. MaxGroupRows}
    /\ by_quality = NoGroup
    /\ insights = None

NextQuality ==
    \/ PerformanceByQuality
    \/ GenerateInsights

SpecQuality == InitQuality /\ [][NextQuality]_vars

----------------------------------------------------------------------------
(* Properties of the store *)

HasChatgpt(q) == results[q].present /\ Truthy(results[q].chatgpt)

HasGoogle(q) == results[q].present /\ Truthy(results[q].google)

HasManualOrAutoScores(q) == results[q].present /\ Truthy(results[q].scores)

HasLlmScores(q) == results[q].present /\ Truthy(results[q].llm_scores)

HasScoreSet(q) == HasManualOrAutoScores(q) \/ HasLlmScores(q)

\* C1: every entry of the progress store satisfies scored => chatgpt_done
\* and google_done.
C1_ScoredImpliesBothDone ==
    \A q \in QueryIds :
        progress[q].scored => (progress[q].chatgpt_done /\ progress[q].google_done)

AutomatedScoringStep ==
    \/ AutoScoreRemaining
    \/ JudgeStart
    \/ JudgeScore
    \/ JudgeFinish

\* C3: a step of an automated scoring operation (the auto-score-remaining
\* endpoint, the run_llm_judge script and its writes of the snapshot) leaves
\* every manual ScoreSet of the results store as it is.
C3_ManualScoresKept ==
    [][AutomatedScoringStep =>
          \A q \in QueryIds :
              results[q].scores = ManualScores => results'[q].scores = ManualScores]_vars

\* C4: get_queries_needing_scores returns a query if and only if the results
\* store holds both responses for it and neither 'scores' nor 'llm_scores'.
C4_NeedingScoresIff ==
    \A q \in QueryIds :
        (q \in SeqRange(GetQueriesNeedingScores(progress)))
            <=> (HasChatgpt(q) /\ HasGoogle(q) /\ ~HasScoreSet(q))

\* The counts of an independent scan of the results store.
IndependentScan ==
    [chatgpt_responses |-> Cardinality({q \in QueryIds : HasChatgpt(q)}),
     google_responses  |-> Cardinality({q \in QueryIds : HasGoogle(q)}),
     scored            |-> Cardinality({q \in QueryIds : HasScoreSet(q)}),
     fully_complete    |-> Cardinality({q \in QueryIds :
                               HasChatgpt(q) /\ HasGoogle(q) /\ HasScoreSet(q)})]

\* C5: get_completion_stats returns exactly the counts of an independent
\* scan of the results store, whatever the progress cache holds.
C5_StatsMatchScan == GetCompletionStats = IndependentScan

\* A store whose cache disagrees with its results on a query that the
\* statistics count as scored.
C5_Witness ==
    /\ \E q \in QueryIds : HasLlmScores(q) /\ ~progress[q].scored
    /\ \E q \in QueryIds : HasChatgpt(q) /\ ~progress[q].chatgpt_done
    /\ GetCompletionStats.scored >= 1
    /\ GetCompletionStats.fully_complete >= 1

\* C6: the progress cache says chatgpt_done / google_done / scored exactly
\* when the results store holds the ChatGPT response / the Google response /
\* a ScoreSet.
C6_ProgressDerivable ==
    \A q \in QueryIds :
        /\ progress[q].chatgpt_done <=> HasChatgpt(q)
        /\ progress[q].google_done <=> HasGoogle(q)
        /\ progress[q].scored <=> HasScoreSet(q)

RowsFor(loaded, q) == Len(SelectSeq(loaded.rows, LAMBDA r : r.query_id = q))

\* C14: the table load_analysis_data builds has exactly one row for every
\* query whose results entry holds a ScoreSet ('scores' or 'llm_scores'), and
\* no other row.
C14_OneRowPerScoredQuery ==
    LET loaded == LoadAnalysisData(results)
    IN  ~loaded.raised =>
            \A q \in QueryIds : RowsFor(loaded, q) = Bump(HasScoreSet(q))

\* C15: in every store state generate_full_analysis returns an analysis or
\* an error result; it does not raise.
C15_AnalysisNeverRaises == GenerateFullAnalysis(results) # "raised"

\* C19: in the file operations of an operation, every write over an existing
\* file follows a backup of that file, with no other operation on the file
\* between the two.
C19_BackupBeforeOverwrite ==
    \A i \in 1 .. Len(fs_log) :
        (fs_log[i].op = "write" /\ fs_log[i].existed) =>
            \E j \in 1 .. (i - 1) :
                /\ fs_log[j].op = "backup"
                /\ fs_log[j].file = fs_log[i].file
                /\ \A k \in (j + 1) .. (i - 1) : fs_log[k].file # fs_log[i].file

\* A save-scores request without a query id, without all the score fields,
\* or for a query with no entry in the results store.
InvalidScoresRequest(query_id, scores) ==
    \/ query_id = <<>>
    \/ scores = None
    \/ scores = PartialScores
    \/ ~results[query_id[1]].present

\* C20: an invalid save-scores request is answered with an error and leaves
\* the results store and the progress store as they were.
C20_InvalidScoresRejected ==
    [][\A id \in RequestIds, sc \in RequestScores :
          (SaveScores(id, sc) /\ InvalidScoresRequest(id, sc)) =>
              /\ results' = results
              /\ progress' = progress
              /\ scores_reply'.error # None]_vars

\* C21: no results entry holds a manual ScoreSet ('scores') and an automated
\* ScoreSet ('llm_scores') at the same time.
C21_AtMostOneScoreSet ==
    \A q \in QueryIds : ~(HasManualOrAutoScores(q) /\ HasLlmScores(q))

OtherPlatform(p) == IF p = "chatgpt" THEN "google" ELSE "chatgpt"

\* What save_result leaves of an entry that was not there: nothing stored.
Before(q) == IF results[q].present THEN results[q] ELSE NewEntry

FirstN(xs, n) == SubSeq(xs, 1, Min(n, Len(xs)))

\* The queries, in dataset order, whose progress entry lacks the field.
Lacking(prog, field) ==
    SelectSeq([i \in 1 .. NumQueries |-> i - 1], LAMBDA q : ~prog[q][field])

\* The caps tried on the work queues.
Caps == 0 .. (NumQueries + 1)

\* C23: for every cap N >= 0 the two work queues are the first min(N, m) of
\* the m queries lacking the stage, in dataset order.
C23_QueueIsCappedPrefix ==
    \A N \in Caps :
        /\ GetQueriesNeedingChatgpt(progress, N)
               = FirstN(Lacking(progress, "chatgpt_done"), N)
        /\ GetQueriesNeedingGoogle(progress, N)
               = FirstN(Lacking(progress, "google_done"), N)

----------------------------------------------------------------------------
(* Properties of the batch runner *)

Executing(w) == wpc[w] \notin {"unused", "done"}

\* C2: at most one batch worker is executing at any time.
C2_OneBatchAtATime == Cardinality({w \in Workers : Executing(w)}) <= 1

\* batch_query of worker w has returned.
BatchReturned(w) == wpc[w] = "summary" \/ (wpc[w] \in {"finally", "done"} /\ wresults[w] # <<>>)

RecordsOf(w, q) == SelectSeq(wresults[w], LAMBDA r : r.query_id = q)

\* The item at position i of the batch of w was recorded as a failure.
RecordedFailure(w, i) ==
    \E k \in 1 .. Len(wresults[w]) :
        wresults[w][k].query_id = wqueries[w][i] /\ ~wresults[w][k].success

InvokedAndRecorded(w, j) ==
    /\ wcalls[w][j] >= 1
    /\ Len(RecordsOf(w, wqueries[w][j])) = 1

\* batch_query ran its loop to the end: nothing cut it short.
NoExceptionFromBatch(w) == BatchReturned(w) => widx[w] = Len(wqueries[w])

\* C7 as stated: an item that fails on every attempt is recorded as a failure
\* after exactly max_attempts invocations, no exception escapes batch_query,
\* and every later item of the batch is still invoked and recorded.
C7_EveryLaterItemProcessed ==
    \A w \in Workers : \A i \in 1 .. Len(wqueries[w]) :
        RecordedFailure(w, i) =>
            /\ wcalls[w][i] = MaxAttempts
            /\ NoExceptionFromBatch(w)
            /\ BatchReturned(w) =>
                   \A j \in (i + 1) .. Len(wqueries[w]) : InvokedAndRecorded(w, j)

\* C7 as amended: the later items that are invoked and recorded are those
\* that have a query text; an item without text is skipped.
C7_LaterItemsWithTextProcessed ==
    \A w \in Workers : \A i \in 1 .. Len(wqueries[w]) :
        RecordedFailure(w, i) =>
            /\ wcalls[w][i] = MaxAttempts
            /\ NoExceptionFromBatch(w)
            /\ BatchReturned(w) =>
                   \A j \in (i + 1) .. Len(wqueries[w]) :
                       IF Skipped(wqueries[w][j])
                       THEN wcalls[w][j] = 0 /\ RecordsOf(w, wqueries[w][j]) = <<>>
                       ELSE InvokedAndRecorded(w, j)

\* A batch that returned with its first item failed and a later item invoked
\* and recorded.
C7_Witness ==
    \E w \in Workers :
        /\ BatchReturned(w)
        /\ Len(wqueries[w]) >= 2
        /\ RecordedFailure(w, 1)
        /\ wcalls[w][1] = MaxAttempts
        /\ InvokedAndRecorded(w, 2)

BackoffDelaysAt(w, pos) ==
    LET ss == SelectSeq(wsleeps[w], LAMBDA x : x.kind = "backoff" /\ x.at = pos)
    IN  [i \in 1 .. Len(ss) |-> ss[i].delay]

\* C8: when query_with_retry returns a result after k failed invocations,
\* exactly k backoff sleeps were taken for the item, the i-th lasting
\* retry_delay * 2^(i-1), whatever the way the invocation failed.
C8_BackoffBeforeSuccess ==
    \A w \in Workers :
        (wpc[w] = "record" /\ Truthy(wresult[w])) =>
            LET pos == widx[w] + 1
                k == wcalls[w][pos] - 1
            IN  BackoffDelaysAt(w, pos) = [i \in 1 .. k |-> RetryDelay * (2 ^ (i - 1))]

\* C24 as stated: when batch_query returns, the callback was called once for
\* each query of the input list, in input order, the count going up by one
\* per call and ending at total.
C24_CallbackOncePerQuery ==
    \A w \in Workers :
        BatchReturned(w) =>
            /\ Len(wcallbacks[w]) = Len(wqueries[w])
            /\ \A j \in 1 .. Len(wcallbacks[w]) :
                   /\ wcallbacks[w][j].current = j
                   /\ wcallbacks[w][j].total = Len(wqueries[w])
                   /\ wcallbacks[w][j].query_id = wqueries[w][j]

\* The positions of the batch of w that the loop has passed and that have a
\* query text, in order.
PassedWithText(w) ==
    SelectSeq([j \in 1 .. widx[w] |-> j], LAMBDA j : ~Skipped(wqueries[w][j]))

\* C24 as amended: the callback is called once for each query that has a
\* text, in input order, carrying the position of the query in the list,
\* total, the id and the result recorded; queries without text get no call,
\* so the count skips their positions.
C24_CallbackOncePerQueryWithText ==
    \A w \in Workers :
        LET pos == PassedWithText(w)
        IN  /\ Len(wcallbacks[w]) = Len(pos)
            /\ Len(wresults[w]) = Len(pos)
            /\ \A k \in 1 .. Len(pos) :
                   /\ wcallbacks[w][k].current = pos[k]
                   /\ wcallbacks[w][k].total = Len(wqueries[w])
                   /\ wcallbacks[w][k].query_id = wqueries[w][pos[k]]
                   /\ wcallbacks[w][k].ok = wresults[w][k].success

\* A batch of two queries with text that returned after one success and one
\* failure, the callback called for both.
C24_Witness ==
    \E w \in Workers :
        /\ BatchReturned(w)
        /\ Len(wqueries[w]) = 2
        /\ Len(wcallbacks[w]) = 2
        /\ wcallbacks[w][1].ok
        /\ ~wcallbacks[w][2].ok
        /\ wcallbacks[w][2].current = 2

RateDelaysAt(w, pos) ==
    LET ss == SelectSeq(wsleeps[w], LAMBDA x : x.kind = "rate" /\ x.at = pos)
    IN  [i \in 1 .. Len(ss) |-> ss[i].delay]

RecordedSuccess(w, j) ==
    \E k \in 1 .. Len(wresults[w]) :
        wresults[w][k].query_id = wqueries[w][j] /\ wresults[w][k].success

\* C25 as stated: when batch_query returns, a rate-limit delay was taken
\* after an item exactly when the item was a successful call and not the
\* final item.
C25_DelayOnlyAfterSuccess ==
    \A w \in Workers :
        BatchReturned(w) =>
            \A j \in 1 .. Len(wqueries[w]) :
                RateDelaysAt(w, j) =
                    IF RecordedSuccess(w, j) /\ j < Len(wqueries[w])
                    THEN <<RateLimitDelay>> ELSE <<>>

\* C25 as amended: one delay of rate_limit_delay follows every item that was
\* invoked, successful or failed, unless it is at the final position of the
\* list; an item without text, and the item at the final position, get none.
C25_DelayAfterEveryCall ==
    \A w \in Workers :
        \A j \in 1 .. Len(wqueries[w]) :
            RateDelaysAt(w, j) =
                IF j <= widx[w] /\ ~Skipped(wqueries[w][j]) /\ j < Len(wqueries[w])
                THEN <<RateLimitDelay>> ELSE <<>>

\* A batch of two queries that returned with the first item failed: the
\* delay was taken after it and none after the last.
C25_Witness ==
    \E w \in Workers :
        /\ BatchReturned(w)
        /\ Len(wqueries[w]) = 2
        /\ RecordedFailure(w, 1)
        /\ RateDelaysAt(w, 1) = <<RateLimitDelay>>
        /\ Len(RecordsOf(w, wqueries[w][2])) = 1
        /\ RateDelaysAt(w, 2) = <<>>

BatchCompleted(w) ==
    /\ wpc[w] = "done"
    /\ ~batch_processing.running
    /\ batch_processing.completed

\* C26: a batch that was started reaches, the worker being scheduled
\* fairly, a state with running = false and completed = true.
C26_BatchRunsToCompletion ==
    \A w \in Workers : (wpc[w] = "start") ~> BatchCompleted(w)

\* A batch completed after a success and a failure.
C26_Witness ==
    \E w \in Workers :
        /\ BatchCompleted(w)
        /\ batch_processing.completion_message = "PARTIAL"

C30_StatusRecordConsistent ==
    /\ 0 <= batch_processing.success_count
    /\ batch_processing.success_count <= batch_processing.progress
    /\ batch_processing.progress <= batch_processing.total
    /\ batch_processing.completed => ~batch_processing.running

\* C29: once the save of the worker and the save of the handler have both
\* returned success, results.json holds what each of them saved.
C29_NoSaveLost ==
    (\A t \in Threads : saving[t].pc = "returned" /\ saving[t].ok) =>
        \A t \in Threads :
            /\ results[saving[t].q].present
            /\ results[saving[t].q][saving[t].field] = saving[t].data

----------------------------------------------------------------------------
(* Properties of the quality insight *)

\* The sum over the three metrics of the mean score of the platform in the
\* group, in hundredths: three times the average score of the platform.
MetricMeansSum(platform) ==
    SumSeq([i \in 1 .. 3 |->
               RoundHundredths(SumSeq([k \in 1 .. Len(quality_df) |->
                                          quality_df[k][platform][Metrics[i]]]),
                               Len(quality_df))])

AverageGap == MetricMeansSum("google") - MetricMeansSum("chatgpt")

\* C28: the insight on poorly-formed queries is emitted exactly when the
\* averages of the two assistants over the three metric means of the group
\* differ by more than 0.3, and it names the one with the higher average.
C28_InsightFollowsAverageGap ==
    (gpc = "done" /\ quality_df # <<>>) =>
        /\ (insights # None) <=> (Abs(AverageGap) > 90)
        /\ insights = "Google AI Mode" => AverageGap > 0
        /\ insights = "ChatGPT" => AverageGap < 0

----------------------------------------------------------------------------
(* Properties of the sampler *)

\* C9: for a non-empty list of queries, select_stratified_sample returns at
\* most sample_size queries.
C9_AtMostTargetSize ==
    (spc = "done" /\ squeries # <<>>) => Len(selected) <= sample_size

CategoryOf(id) == squeries[id + 1].category

\* C10: with sample_size at least the number of distinct categories, every
\* category of the input has a query in the result.
C10_EveryCategoryCovered ==
    (spc = "done" /\ sample_size >= Len(CategoryList(squeries))) =>
        \A c \in SeqRange(CategoryList(squeries)) :
            \E k \in 1 .. Len(selected) : CategoryOf(selected[k]) = c

\* A call that returned fewer queries than it was given, over two categories
\* and with a sample size equal to their number.
C10_Witness ==
    /\ spc = "done"
    /\ Len(CategoryList(squeries)) = 2
    /\ sample_size = 2
    /\ Len(squeries) > Len(selected)
    /\ \A c \in SeqRange(CategoryList(squeries)) :
           \E k \in 1 .. Len(selected) : CategoryOf(selected[k]) = c

InputIds == {squeries[i].id : i \in 1 .. Len(squeries)}

\* C11: for a non-empty list of queries and sample_size >= len(queries), the
\* call returns exactly the input queries, each once, whatever the random
\* choices.
C11_AllReturnedWhenTargetCoversInput ==
    (spc = "done" /\ squeries # <<>> /\ sample_size >= Len(squeries)) =>
        /\ SeqRange(selected) = InputIds
        /\ Len(selected) = Len(squeries)

\* A call on three queries with a sample size that covers them, in which the
\* category step and the hard strata left a query to the random fill.
C11_Witness ==
    /\ spc = "done"
    /\ Len(squeries) = 3
    /\ sample_size >= 3
    /\ remaining > 0
    /\ Cardinality(selected_ids) < 3
    /\ SeqRange(selected) = InputIds

\* C12: the list returned is strictly ascending in query id.
C12_StrictlyAscending ==
    spc = "done" =>
        \A i, j \in 1 .. Len(selected) : i < j => selected[i] < selected[j]

\* A call in which the category step selected the queries 0 and 2 of the
\* first category before query 1 of the second: the list was out of order
\* before the sort.
C12_Witness ==
    /\ spc = "done"
    /\ Len(squeries) = 3
    /\ squeries[1].category = squeries[3].category
    /\ squeries[1].category # squeries[2].category
    /\ sample_size = 4
    /\ selected = <<0, 1, 2>>

\* The hard strata: quality Poorly-formed or Ambiguous, intent clarity Low or
\* Very Low.
Hard(id) ==
    \/ squeries[id + 1].quality \in {"Poorly-formed", "Ambiguous"}
    \/ squeries[id + 1].intent_clarity \in {"Low", "Very Low"}

HardLeft(sel_ids) == {id \in InputIds : Hard(id) /\ id \notin sel_ids}

AddedByStep == SeqRange(selected') \ SeqRange(selected)

C16_EmptyListReturns == squeries = <<>> => spc # "raised"

----------------------------------------------------------------------------
(* Properties of the paired test *)

\* The sum of chatgpt - google over the rows without a missing score.
PairedDifferenceSum ==
    SumSeq([i \in 1 .. Len(DropNa(df)) |->
               DropNa(df)[i].chatgpt - DropNa(df)[i].google])

\* C17: when the mean of the paired differences is not zero, the reported
\* 'difference', the t statistic and Cohen's d have the same sign.
C17_OneSignConvention ==
    (tpc = "done" /\ t_test.error = None /\ PairedDifferenceSum # 0) =>
        /\ Sign(t_test.difference) = t_test.t_statistic.sign
        /\ t_test.t_statistic.sign = t_test.cohens_d.sign

\* C18: on at least two rows with the same score for both assistants in
\* every row, Cohen's d is reported as 0 and classified "negligible".
C18_IdenticalScoresNegligible ==
    (/\ tpc = "done"
     /\ Len(df) >= 2
     /\ \A i \in 1 .. Len(df) : df[i].chatgpt = df[i].google /\ df[i].chatgpt # Missing) =>
        /\ t_test.error = None
        /\ t_test.cohens_d.kind = "finite"
        /\ t_test.cohens_d.sq_num = 0
        /\ t_test.interpretation = "negligible"

====
